---- MODULE Spec2Model ----
(***************************************************************************)
(* Selection algebra of crates/editor/src/editor_util.rs:                  *)
(*   - end_row_for                  (row-end resolver)                     *)
(*   - ContiguousRowRanges::next    (row-range grouper)                    *)
(*   - MergedOverlappingSelections::next (selection merger)                *)
(* Each iterator is a state machine: its Peekable input is a sequence      *)
(* variable, every call of next() is one action, and the items it returns  *)
(* are appended to an output sequence.                                     *)
(*                                                                         *)
(* Text layout cache of crates/gpui/src/elements/text.rs:                  *)
(*   - TextLayout::layout (the measure closure), prepaint, paint           *)
(*   - index_for_position, position_for_index, bounds, line_height, text   *)
(* The cache is Option<TextLayoutInner>; an Option is a sequence of length *)
(* 0 (None) or 1 (Some).  Every call is one action that records what the   *)
(* caller observes (value returned or panic, shaper calls, lines painted). *)
(***************************************************************************)
EXTENDS Integers, Sequences, FiniteSets, TLC

\* ---------------------------------------------------------------- bounds
MaxPos == 3
MaxLen == 3
MaxRow == 2
MaxSels == 2
MaxText == 3

\* ---------------------------------------------------------------- state
VARIABLES
    m_orig,        \* merger: the sequence the first merger was built over
    m_input,       \* merger: the sequence the current merger was built over
    m_selections,  \* merger: MergedOverlappingSelections.selections (what is left)
    m_out,         \* merger: items returned by next() so far
    m_pass,        \* merger: 1 = merging the input, 2 = merging the first output
    m_done,        \* merger: next() has returned None
    display_map,   \* grouper: row -> row of next_line_boundary of a point on it
    r_input,       \* grouper: the sequence the grouper was built over
    r_selections,  \* grouper: ContiguousRowRanges.selections (what is left)
    r_out,         \* grouper: items returned by next() so far
    r_end_rows,    \* grouper: values taken by end_row during the last next()
    r_done,        \* grouper: next() has returned None
    l_text,        \* layout: the text captured by the measure closure
    l_style,       \* layout: the text style captured by the measure closure
    l_runs,        \* layout: the run list owned by the measure closure
    l_cache,       \* layout: TextLayout.0, the shared Option<TextLayoutInner>
    l_op,          \* layout: the last call and what its caller observed
    l_measured,    \* layout: a measurement has stored a layout
    l_prepainted,  \* layout: a prepaint has recorded bounds
    l_again,       \* layout: the last call repeated the measure request before it
    k_lock,        \* lock: the owner holding the mutex of the cache, 0 when free
    k_pc,          \* lock: per owner, the steps of its call and the step it is at
    k_stored,      \* lock: the cache holds a layout
    k_fields,      \* lock: per field of the stored layout, the owner whose call produced it
    k_log,         \* lock: the last step taken and whether its owner held the mutex
    i_ranges,      \* mouse: InteractiveText.clickable_ranges
    i_mouse_down,  \* mouse: InteractiveTextState.mouse_down_index
    i_hovered_index, \* mouse: InteractiveTextState.hovered_index
    i_hover_said,  \* mouse: the argument of the last call of the hover listener
    i_handler,     \* mouse: the click handler the last paint registered
    i_dirty,       \* mouse: window.refresh was called and no frame painted since
    i_press,       \* mouse: the latest press, until the release that follows it
    i_obs          \* mouse: the last event and the listener calls it made

mvars == <<m_orig, m_input, m_selections, m_out, m_pass, m_done>>
rvars == <<display_map, r_input, r_selections, r_out, r_end_rows, r_done>>
lvars == <<l_text, l_style, l_runs, l_cache, l_op, l_measured, l_prepainted, l_again>>
kvars == <<k_lock, k_pc, k_stored, k_fields, k_log>>
ivars == <<i_ranges, i_mouse_down, i_hovered_index, i_hover_said, i_handler, i_dirty,
           i_press, i_obs>>
vars == <<m_orig, m_input, m_selections, m_out, m_pass, m_done,
          display_map, r_input, r_selections, r_out, r_end_rows, r_done,
          l_text, l_style, l_runs, l_cache, l_op, l_measured, l_prepainted, l_again,
          k_lock, k_pc, k_stored, k_fields, k_log,
          i_ranges, i_mouse_down, i_hovered_index, i_hover_said, i_handler, i_dirty,
          i_press, i_obs>>

\* ---------------------------------------------------------------- helpers
SeqsUpTo(S, n) == UNION {[1..k -> S] : k \in 0..n}

Last(s) == s[Len(s)]

\* Selection<T>: the two fields the algorithms read
Selection(S) == [start : S, end : S]

\* end_row_for reads a column only as `column > 0`, and is_empty compares
\* positions: column 0 and one column past 0 stand for all columns
Columns == {0, 1}

\* Point: row and column, ordered by row then column
Point == [row : 0..MaxRow, column : Columns]

PointLeq(p, q) == p.row < q.row \/ (p.row = q.row /\ p.column <= q.column)

\* Selection::is_empty
is_empty(selection) == selection.start = selection.end

\* ---------------------------------------------------------------- merger
\* the merge test of the loop: `selection.end >= next_selection.start`
TouchesStrict(selection, next_selection) == selection.end > next_selection.start

Touches(selection, next_selection) == selection.end >= next_selection.start

\* the two conditional assignments that fold next_selection into selection
FoldKeepEnd(selection, next_selection) ==
    [start |-> IF next_selection.start < selection.start
               THEN next_selection.start ELSE selection.start,
     end   |-> next_selection.end]

Fold(selection, next_selection) ==
    [start |-> IF next_selection.start < selection.start
               THEN next_selection.start ELSE selection.start,
     end   |-> IF next_selection.end > selection.end
               THEN next_selection.end ELSE selection.end]

\* the loop of next(), folding at most one pending selection
MergeLoopOnce(selection, rest) ==
    IF rest # <<>> /\ Touches(selection, Head(rest))
    THEN [selection |-> Fold(selection, Head(rest)), rest |-> Tail(rest)]
    ELSE [selection |-> selection, rest |-> rest]

\* the `while let Some(next_selection) = self.selections.peek()` loop
RECURSIVE MergeLoop(_, _)
MergeLoop(selection, rest) ==
    IF rest # <<>> /\ Touches(selection, Head(rest))
    THEN MergeLoop(Fold(selection, Head(rest)), Tail(rest))
    ELSE [selection |-> selection, rest |-> rest]

MergerInit ==
    /\ m_orig \in SeqsUpTo(Selection(0..MaxPos), MaxLen)
    /\ m_input = m_orig
    /\ m_selections = m_orig
    /\ m_out = <<>>
    /\ m_pass = 1
    /\ m_done = FALSE

MergerIdle ==
    /\ m_orig = <<>>
    /\ m_input = <<>>
    /\ m_selections = <<>>
    /\ m_out = <<>>
    /\ m_pass = 1
    /\ m_done = TRUE

\* next() when an input selection is left: returns Some(merged selection)
MergedNextSome ==
    /\ ~m_done
    /\ m_selections # <<>>
    /\ LET r == MergeLoop(Head(m_selections), Tail(m_selections))
       IN /\ m_out' = Append(m_out, r.selection)
          /\ m_selections' = r.rest
    /\ UNCHANGED <<m_orig, m_input, m_pass, m_done, rvars, lvars, kvars, ivars>>

\* next() on exhausted input: returns None
MergedNextNone ==
    /\ ~m_done
    /\ m_selections = <<>>
    /\ m_done' = TRUE
    /\ UNCHANGED <<m_orig, m_input, m_selections, m_out, m_pass, rvars, lvars, kvars, ivars>>

\* overlapping_selections_merged() applied to the collected output
Remerge ==
    /\ m_done
    /\ m_pass = 1
    /\ m_input' = m_out
    /\ m_selections' = m_out
    /\ m_out' = <<>>
    /\ m_pass' = 2
    /\ m_done' = FALSE
    /\ UNCHANGED <<m_orig, rvars, lvars, kvars, ivars>>

\* ---------------------------------------------------------------- grouper
\* display_map.next_line_boundary(point).0.row
next_line_boundary_row(dm, point) == dm[point.row]

\* end_row_for without the is_empty() test
end_row_for_no_empty(selection, dm) ==
    IF selection.end.column > 0
    THEN next_line_boundary_row(dm, selection.end) + 1
    ELSE selection.end.row

\* end_row_for without the `+ 1`
end_row_for_no_plus(selection, dm) ==
    IF selection.end.column > 0 \/ is_empty(selection)
    THEN next_line_boundary_row(dm, selection.end)
    ELSE selection.end.row

end_row_for(selection, dm) ==
    IF selection.end.column > 0 \/ is_empty(selection)
    THEN next_line_boundary_row(dm, selection.end) + 1
    ELSE selection.end.row

\* the test that keeps a peeked selection in the cluster
InClusterStrict(next_selection, end_row) == next_selection.start.row < end_row

InCluster(next_selection, end_row) == next_selection.start.row <= end_row

\* the loop of next(), taking the pending selection with next() before testing it
RECURSIVE RowsLoopNoPeek(_, _, _, _, _)
RowsLoopNoPeek(end_row, selections, rest, end_rows, dm) ==
    IF rest # <<>> /\ InCluster(Head(rest), end_row)
    THEN LET e == end_row_for(Head(rest), dm)
         IN RowsLoopNoPeek(e, Append(selections, Head(rest)), Tail(rest),
                           Append(end_rows, e), dm)
    ELSE [end_row |-> end_row, selections |-> selections,
          rest |-> IF rest = <<>> THEN rest ELSE Tail(rest),
          end_rows |-> end_rows]

\* the `while let Some(next_selection) = self.selections.peek()` loop;
\* end_rows records every value end_row takes
RECURSIVE RowsLoop(_, _, _, _, _)
RowsLoop(end_row, selections, rest, end_rows, dm) ==
    IF rest # <<>> /\ InCluster(Head(rest), end_row)
    THEN LET e == end_row_for(Head(rest), dm)
         IN RowsLoop(e, Append(selections, Head(rest)), Tail(rest),
                     Append(end_rows, e), dm)
    ELSE [end_row |-> end_row, selections |-> selections, rest |-> rest,
          end_rows |-> end_rows]

\* a display snapshot groups consecutive rows into display lines (rows joined by
\* folds); every row maps to the last row of its display line
DisplayMaps ==
    {f \in [0..MaxRow -> 0..MaxRow] :
        /\ \A r \in 0..MaxRow : f[r] >= r /\ f[f[r]] = f[r]
        /\ \A r \in 0..(MaxRow - 1) : f[r] <= f[r + 1]}

SortedByStartRow(s) ==
    \A i \in 1..(Len(s) - 1) : s[i].start.row <= s[i + 1].start.row

Normalized(s) == \A i \in 1..Len(s) : PointLeq(s[i].start, s[i].end)

RowsInit ==
    /\ display_map \in DisplayMaps
    /\ r_input \in {s \in SeqsUpTo(Selection(Point), MaxSels) :
                       Normalized(s) /\ SortedByStartRow(s)}
    /\ r_selections = r_input
    /\ r_out = <<>>
    /\ r_end_rows = <<>>
    /\ r_done = FALSE

RowsIdle ==
    /\ display_map = [r \in 0..MaxRow |-> r]
    /\ r_input = <<>>
    /\ r_selections = <<>>
    /\ r_out = <<>>
    /\ r_end_rows = <<>>
    /\ r_done = TRUE

\* next() when an input selection is left: returns Some((range, cluster))
RowsNextSome ==
    /\ ~r_done
    /\ r_selections # <<>>
    /\ LET selection == Head(r_selections)
           start_row == selection.start.row
           first_end == end_row_for(selection, display_map)
           r == RowsLoop(first_end, <<selection>>, Tail(r_selections),
                         <<first_end>>, display_map)
       IN /\ r_out' = Append(r_out, [range |-> [start |-> start_row, end |-> r.end_row],
                                     selections |-> r.selections])
          /\ r_selections' = r.rest
          /\ r_end_rows' = r.end_rows
    /\ UNCHANGED <<display_map, r_input, r_done, mvars, lvars, kvars, ivars>>

\* next() on exhausted input: returns None
RowsNextNone ==
    /\ ~r_done
    /\ r_selections = <<>>
    /\ r_done' = TRUE
    /\ UNCHANGED <<display_map, r_input, r_selections, r_out, r_end_rows, mvars, lvars, kvars, ivars>>

\* ---------------------------------------------------------------- text layout
\* Option<T>
None == <<>>

Some(x) == <<x>>

is_some(o) == o # <<>>

unwrap(o) == o[1]

\* Option::or
or(o, other) == IF is_some(o) THEN o ELSE other

\* Pixels::ceil left out: the width as it is
ceil_skipped(px) == px

\* Pixels are counted in half pixels, so that a width can fall between two
\* whole pixels; Pixels::ceil rounds up to a whole pixel
ceil(px) == ((px + 1) \div 2) * 2

max(a, b) == IF a >= b THEN a ELSE b

min(a, b) == IF a <= b THEN a ELSE b

\* Size::default()
ZeroSize == [width |-> 0, height |-> 0]

\* the separator of text(), and the character shape_text breaks lines on
NL == "\n"

\* texts: strings of at most MaxText characters
Texts == SeqsUpTo({"a", NL}, MaxText)

\* the advance of one glyph, in half pixels (one and a half pixels)
GlyphAdvance == 3

\* the marker truncate_line appends in ellipsis mode
ELLIPSIS == "~"

\* widths the layout system offers, in half pixels: room for one glyph, for two
Widths == {4, 7}

\* line heights of the ambient style, in half pixels
LineHeights == {4}

\* origins of the bounds handed to prepaint
Origins == {[x |-> 0, y |-> 0], [x |-> 2, y |-> 4]}

\* known_dimensions.width: Option<Pixels>
KnownWidths == {None} \cup {Some(w) : w \in Widths}

\* available_space.width: AvailableSpace
AvailableWidths ==
    {[kind |-> "Definite", px |-> w] : w \in Widths}
        \cup {[kind |-> "MinContent", px |-> 0], [kind |-> "MaxContent", px |-> 0]}

\* TextStyle: the fields the measurement reads
Styles ==
    [white_space : {"Normal", "Nowrap"},
     truncate : {None, Some("Truncate"), Some("Ellipsis")},
     line_height : LineHeights]

\* `match available_space.width { Definite(x) => Some(x), _ => None }`
definite(available) == IF available.kind = "Definite" THEN Some(available.px) ELSE None

\* wrap_width of the measure closure, without the test of white_space
ResolveWrapWidthAlways(style, known, available) == or(known, definite(available))

\* wrap_width of the measure closure
ResolveWrapWidth(style, known, available) ==
    IF style.white_space = "Normal" THEN or(known, definite(available)) ELSE None

\* truncate_width of the measure closure
ResolveTruncateWidth(style, known, available) ==
    IF is_some(style.truncate) THEN or(known, definite(available)) ELSE None

\* ellipsis of the measure closure
ResolveEllipsis(style) ==
    IF style.truncate = Some("Ellipsis") THEN Some(ELLIPSIS) ELSE None

\* the cache test of the measure closure, reusing only an unconstrained layout
CacheHitUnconstrained(cache, wrap_width) ==
    /\ is_some(cache)
    /\ is_some(unwrap(cache).size)
    /\ ~is_some(wrap_width)

\* the cache test of the measure closure, without the wrap width comparison
CacheHitAnyWidth(cache, wrap_width) ==
    /\ is_some(cache)
    /\ is_some(unwrap(cache).size)

\* the cache test of the measure closure
CacheHit(cache, wrap_width) ==
    /\ is_some(cache)
    /\ is_some(unwrap(cache).size)
    /\ (~is_some(wrap_width) \/ wrap_width = unwrap(cache).wrap_width)

\* ---- the shaper (text system), an external collaborator
Prefix(s, n) == SubSeq(s, 1, min(n, Len(s)))

\* the run list cut down to cover n bytes
RECURSIVE TruncateRuns(_, _)
TruncateRuns(runs, n) ==
    IF runs = <<>> \/ n = 0 THEN <<>>
    ELSE IF Head(runs) >= n THEN <<n>>
    ELSE <<Head(runs)>> \o TruncateRuns(Tail(runs), n - Head(runs))

\* LineWrapper::truncate_line: the text unchanged when it fits in the width,
\* else its longest prefix that fits together with the marker, and the marker;
\* the run list is cut to the text returned
truncate_line(text, truncate_width, ellipsis, runs) ==
    IF Len(text) * GlyphAdvance <= truncate_width
    THEN [text |-> text, runs |-> runs]
    ELSE LET marker == IF is_some(ellipsis) THEN <<unwrap(ellipsis)>> ELSE <<>>
             room   == max(0, truncate_width - Len(marker) * GlyphAdvance)
             kept   == Prefix(text, room \div GlyphAdvance) \o marker
         IN [text |-> kept, runs |-> TruncateRuns(runs, Len(kept))]

\* the lines of a text: the pieces between separators
RECURSIVE SplitLines(_, _)
SplitLines(text, current) ==
    IF text = <<>> THEN <<current>>
    ELSE IF Head(text) = NL THEN <<current>> \o SplitLines(Tail(text), <<>>)
    ELSE SplitLines(Tail(text), Append(current, Head(text)))

\* glyphs on one visual row of a line wrapped at wrap_width
GlyphsPerRow(wrap_width) ==
    IF is_some(wrap_width) THEN max(1, unwrap(wrap_width) \div GlyphAdvance) ELSE MaxText + 1

\* WrappedLine: its text, the width of its unwrapped layout, the width it was
\* wrapped at and the number of wrap boundaries
WrapLine(text, wrap_width) ==
    [text |-> text,
     unwrapped_width |-> Len(text) * GlyphAdvance,
     wrap_width |-> wrap_width,
     wrap_boundaries |->
        IF Len(text) = 0 THEN 0
        ELSE (Len(text) + GlyphsPerRow(wrap_width) - 1) \div GlyphsPerRow(wrap_width) - 1]

\* TextSystem::shape_text on success: one WrappedLine per line of the text
shape_text(text, wrap_width) ==
    LET pieces == SplitLines(text, <<>>)
    IN [i \in 1..Len(pieces) |-> WrapLine(pieces[i], wrap_width)]

\* WrappedLine::len
line_len(line) == Len(line.text)

\* WrappedLine::size
line_size(line, line_height) ==
    [width  |-> IF is_some(line.wrap_width)
                THEN min(unwrap(line.wrap_width), line.unwrapped_width)
                ELSE line.unwrapped_width,
     height |-> line_height * (line.wrap_boundaries + 1)]

\* ---- the measure closure
\* the size loop of the measure closure
RECURSIVE MeasureSize(_, _, _)
MeasureSize(lines, line_height, size) ==
    IF lines = <<>> THEN size
    ELSE LET line_size0 == line_size(Head(lines), line_height)
         IN MeasureSize(Tail(lines), line_height,
                [width  |-> ceil(max(size.width, line_size0.width)),
                 height |-> size.height + line_size0.height])

\* TextLayoutInner stored when shape_text fails, with no wrap width
FailedLayoutNoWrap(cache, line_height, wrap_width) ==
    [lines |-> <<>>, line_height |-> line_height, wrap_width |-> None,
     size |-> Some(ZeroSize), bounds |-> None]

\* TextLayoutInner stored when shape_text fails
FailedLayout(cache, line_height, wrap_width) ==
    [lines |-> <<>>, line_height |-> line_height, wrap_width |-> wrap_width,
     size |-> Some(ZeroSize), bounds |-> None]

\* TextLayoutInner stored when shape_text succeeds, with the bounds recorded
\* before kept
ShapedLayoutKeepingBounds(lines, line_height, wrap_width) ==
    [lines |-> lines, line_height |-> line_height, wrap_width |-> wrap_width,
     size |-> Some(MeasureSize(lines, line_height, ZeroSize)),
     bounds |-> IF is_some(l_cache) THEN unwrap(l_cache).bounds ELSE None]

\* TextLayoutInner stored when shape_text succeeds
ShapedLayout(lines, line_height, wrap_width) ==
    [lines |-> lines, line_height |-> line_height, wrap_width |-> wrap_width,
     size |-> Some(MeasureSize(lines, line_height, ZeroSize)), bounds |-> None]

\* what a caller observes of a call: its arguments, how it ended ("ok" or
\* "panic"), the value returned (an Option: None when nothing is returned), the
\* shaper calls made and the origins of the lines painted
Observed(name, args, outcome, value, shaper, painted) ==
    [name |-> name, args |-> args, outcome |-> outcome, value |-> value,
     shaper |-> shaper, painted |-> painted]

LayoutInit ==
    /\ l_text \in Texts
    /\ l_style \in Styles
    /\ l_runs = <<Len(l_text)>>
    /\ l_cache = None
    /\ l_op = Observed("new", <<>>, "ok", None, <<>>, <<>>)
    /\ l_measured = FALSE
    /\ l_prepainted = FALSE
    /\ l_again = FALSE

LayoutIdle ==
    /\ l_text = <<>>
    /\ l_style = [white_space |-> "Normal", truncate |-> None, line_height |-> 4]
    /\ l_runs = <<0>>
    /\ l_cache = None
    /\ l_op = Observed("new", <<>>, "ok", None, <<>>, <<>>)
    /\ l_measured = FALSE
    /\ l_prepainted = FALSE
    /\ l_again = FALSE

\* the measure closure registered by TextLayout::layout, called by the layout
\* system with known_dimensions and available_space
MeasureWith(known, available, shaper_ok) ==
    LET args           == [known |-> known, available |-> available]
        wrap_width     == ResolveWrapWidth(l_style, known, available)
        truncate_width == ResolveTruncateWidth(l_style, known, available)
        ellipsis       == ResolveEllipsis(l_style)
        truncated      == IF is_some(truncate_width)
                          THEN truncate_line(l_text, unwrap(truncate_width), ellipsis, l_runs)
                          ELSE [text |-> l_text, runs |-> l_runs]
        calls          == (IF is_some(truncate_width) THEN <<"truncate_line">> ELSE <<>>)
                             \o <<IF shaper_ok THEN "shape_text" ELSE "shape_text failed">>
        stored         == IF shaper_ok
                          THEN ShapedLayout(shape_text(truncated.text, wrap_width),
                                            l_style.line_height, wrap_width)
                          ELSE FailedLayout(l_cache, l_style.line_height, wrap_width)
    IN IF CacheHit(l_cache, wrap_width)
       THEN /\ shaper_ok
            /\ l_op' = Observed("measure", args, "ok",
                                Some(unwrap(unwrap(l_cache).size)), <<>>, <<>>)
            /\ UNCHANGED <<l_runs, l_cache, l_measured>>
       ELSE /\ l_runs' = truncated.runs
            /\ l_cache' = Some(stored)
            /\ l_op' = Observed("measure", args, "ok", stored.size, calls, <<>>)
            /\ l_measured' = TRUE

Measure ==
    /\ \E known \in KnownWidths, available \in AvailableWidths, shaper_ok \in BOOLEAN :
          /\ MeasureWith(known, available, shaper_ok)
          /\ l_again' = (l_op.name = "measure"
                            /\ l_op.args = [known |-> known, available |-> available])
    /\ UNCHANGED <<l_text, l_style, l_prepainted, mvars, rvars, kvars, ivars>>

\* bounds the layout system hands to prepaint: an origin and the measured size
BoundsChoices ==
    {[origin |-> o, size |-> IF is_some(l_cache) THEN unwrap(unwrap(l_cache).size) ELSE ZeroSize] :
        o \in Origins}

\* TextLayout::prepaint, recording the bounds although no layout is stored
PrepaintUnchecked(bounds) ==
    IF ~is_some(l_cache)
    THEN /\ l_cache' = Some([FailedLayout(l_cache, l_style.line_height, None)
                                EXCEPT !.size = None, !.bounds = Some(bounds)])
         /\ l_op' = Observed("prepaint", bounds, "ok", None, <<>>, <<>>)
         /\ l_prepainted' = TRUE
    ELSE /\ l_cache' = Some([unwrap(l_cache) EXCEPT !.bounds = Some(bounds)])
         /\ l_op' = Observed("prepaint", bounds, "ok", None, <<>>, <<>>)
         /\ l_prepainted' = TRUE

\* TextLayout::prepaint
PrepaintWith(bounds) ==
    IF ~is_some(l_cache)
    THEN /\ l_op' = Observed("prepaint", bounds, "panic", None, <<>>, <<>>)
         /\ UNCHANGED <<l_cache, l_prepainted>>
    ELSE /\ l_cache' = Some([unwrap(l_cache) EXCEPT !.bounds = Some(bounds)])
         /\ l_op' = Observed("prepaint", bounds, "ok", None, <<>>, <<>>)
         /\ l_prepainted' = TRUE

Prepaint ==
    /\ \E bounds \in BoundsChoices : PrepaintWith(bounds)
    /\ l_again' = FALSE
    /\ UNCHANGED <<l_text, l_style, l_runs, l_measured, mvars, rvars, kvars, ivars>>

\* the paint loop: the origin each line is painted at
RECURSIVE PaintLines(_, _, _)
PaintLines(lines, line_height, line_origin) ==
    IF lines = <<>> THEN <<>>
    ELSE <<line_origin>> \o
         PaintLines(Tail(lines), line_height,
                    [line_origin EXCEPT !.y = @ + line_size(Head(lines), line_height).height])

\* what paint() does, without the test that prepaint has recorded bounds
PaintedUnchecked(cache) ==
    IF ~is_some(cache)
    THEN Observed("paint", <<>>, "panic", None, <<>>, <<>>)
    ELSE LET origin == IF is_some(unwrap(cache).bounds)
                       THEN unwrap(unwrap(cache).bounds).origin ELSE [x |-> 0, y |-> 0]
         IN Observed("paint", <<>>, "ok", None, <<>>,
                     PaintLines(unwrap(cache).lines, unwrap(cache).line_height, origin))

\* what TextLayout::paint does
Painted(cache) ==
    IF ~is_some(cache) THEN Observed("paint", <<>>, "panic", None, <<>>, <<>>)
    ELSE IF ~is_some(unwrap(cache).bounds) THEN Observed("paint", <<>>, "panic", None, <<>>, <<>>)
    ELSE Observed("paint", <<>>, "ok", None, <<>>,
                  PaintLines(unwrap(cache).lines, unwrap(cache).line_height,
                             unwrap(unwrap(cache).bounds).origin))

\* TextLayout::paint, dropping the recorded bounds once the lines are painted
PaintDroppingBounds ==
    /\ l_op' = Painted(l_cache)
    /\ l_again' = FALSE
    /\ l_cache' = IF is_some(l_cache) THEN Some([unwrap(l_cache) EXCEPT !.bounds = None])
                  ELSE l_cache
    /\ UNCHANGED <<l_text, l_style, l_runs, l_measured, l_prepainted, mvars, rvars, kvars, ivars>>

Paint ==
    /\ l_op' = Painted(l_cache)
    /\ l_again' = FALSE
    /\ UNCHANGED <<l_text, l_style, l_runs, l_cache, l_measured, l_prepainted, mvars, rvars, kvars, ivars>>

\* ---- geometry queries
\* points asked of index_for_position, in half pixels
QueryPoints == [x : {0, 4, 10}, y : {-1, 0, 2, 6, 10}]

\* indices asked of position_for_index
QueryIndices == 0..(MaxText + 1)

\* Result<usize, usize>
Ok(index) == [tag |-> "Ok", index |-> index]

Err(index) == [tag |-> "Err", index |-> index]

\* WrappedLine::index_for_position: the visual row under position.y, then the
\* glyph under position.x on that row; a miss at the row's start or end when
\* x is off the row, a miss at 0 when y is past the last row
line_index_for_position(line, position, line_height) ==
    LET per_row == GlyphsPerRow(line.wrap_width)
        row     == IF position.y < 0 THEN 0 ELSE position.y \div line_height
        start   == row * per_row
        end     == IF row < line.wrap_boundaries THEN (row + 1) * per_row ELSE Len(line.text)
    IN IF row > line.wrap_boundaries THEN Err(0)
       ELSE IF position.x < 0 THEN Err(start)
       ELSE IF position.x >= (end - start) * GlyphAdvance THEN Err(end)
       ELSE Ok(start + position.x \div GlyphAdvance)

\* WrappedLine::position_for_index: an index on a wrap boundary is at the end of
\* the earlier row
line_position_for_index(line, index, line_height) ==
    LET per_row == GlyphsPerRow(line.wrap_width)
        row     == IF index = 0 THEN 0 ELSE (index - 1) \div per_row
    IN IF index > Len(line.text) THEN None
       ELSE Some([x |-> (index - row * per_row) * GlyphAdvance, y |-> row * line_height])

\* plain subtraction
wrapping_sub(a, b) == a - b

\* usize::saturating_sub
saturating_sub(a, b) == IF a >= b THEN a - b ELSE 0

\* the line loop of index_for_position, counting no separator between lines
RECURSIVE IndexLoopNoSeparator(_, _, _, _, _)
IndexLoopNoSeparator(lines, line_height, position, line_origin, line_start_ix) ==
    IF lines = <<>> THEN Err(saturating_sub(line_start_ix, 1))
    ELSE LET line        == Head(lines)
             line_bottom == line_origin.y + line_size(line, line_height).height
         IN IF position.y > line_bottom
            THEN IndexLoopNoSeparator(Tail(lines), line_height, position,
                                      [line_origin EXCEPT !.y = line_bottom],
                                      line_start_ix + line_len(line))
            ELSE LET within == line_index_for_position(
                                   line,
                                   [x |-> position.x - line_origin.x,
                                    y |-> position.y - line_origin.y],
                                   line_height)
                 IN [tag |-> within.tag, index |-> line_start_ix + within.index]

\* the line loop of index_for_position
RECURSIVE IndexLoop(_, _, _, _, _)
IndexLoop(lines, line_height, position, line_origin, line_start_ix) ==
    IF lines = <<>> THEN Err(saturating_sub(line_start_ix, 1))
    ELSE LET line        == Head(lines)
             line_bottom == line_origin.y + line_size(line, line_height).height
         IN IF position.y > line_bottom
            THEN IndexLoop(Tail(lines), line_height, position,
                           [line_origin EXCEPT !.y = line_bottom],
                           line_start_ix + line_len(line) + 1)
            ELSE LET within == line_index_for_position(
                                   line,
                                   [x |-> position.x - line_origin.x,
                                    y |-> position.y - line_origin.y],
                                   line_height)
                 IN [tag |-> within.tag, index |-> line_start_ix + within.index]

\* index_for_position reporting a miss at 0 where the layout or the bounds are missing
IndexForPositionLenient(cache, position) ==
    IF ~is_some(cache) \/ ~is_some(unwrap(cache).bounds)
    THEN Observed("index_for_position", position, "ok", Some(Err(0)), <<>>, <<>>)
    ELSE LET inner  == unwrap(cache)
             bounds == unwrap(inner.bounds)
         IN Observed("index_for_position", position, "ok",
                     Some(IF position.y < bounds.origin.y THEN Err(0)
                          ELSE IndexLoop(inner.lines, inner.line_height, position,
                                         bounds.origin, 0)),
                     <<>>, <<>>)

\* what TextLayout::index_for_position does
IndexForPosition(cache, position) ==
    IF ~is_some(cache) THEN Observed("index_for_position", position, "panic", None, <<>>, <<>>)
    ELSE IF ~is_some(unwrap(cache).bounds)
    THEN Observed("index_for_position", position, "panic", None, <<>>, <<>>)
    ELSE LET inner  == unwrap(cache)
             bounds == unwrap(inner.bounds)
         IN Observed("index_for_position", position, "ok",
                     Some(IF position.y < bounds.origin.y THEN Err(0)
                          ELSE IndexLoop(inner.lines, inner.line_height, position,
                                         bounds.origin, 0)),
                     <<>>, <<>>)

\* the line loop of position_for_index, passing over a line at its end index
RECURSIVE PositionLoopEndExclusive(_, _, _, _, _)
PositionLoopEndExclusive(lines, line_height, index, line_origin, line_start_ix) ==
    IF lines = <<>> THEN None
    ELSE LET line        == Head(lines)
             line_end_ix == line_start_ix + line_len(line)
         IN IF index < line_start_ix THEN None
            ELSE IF index >= line_end_ix /\ Tail(lines) # <<>>
            THEN PositionLoopEndExclusive(Tail(lines), line_height, index,
                              [line_origin EXCEPT !.y = @ + line_size(line, line_height).height],
                              line_end_ix + 1)
            ELSE LET within == line_position_for_index(line, index - line_start_ix, line_height)
                 IN IF is_some(within)
                    THEN Some([x |-> line_origin.x + unwrap(within).x,
                               y |-> line_origin.y + unwrap(within).y])
                    ELSE None

\* the line loop of position_for_index
RECURSIVE PositionLoop(_, _, _, _, _)
PositionLoop(lines, line_height, index, line_origin, line_start_ix) ==
    IF lines = <<>> THEN None
    ELSE LET line        == Head(lines)
             line_end_ix == line_start_ix + line_len(line)
         IN IF index < line_start_ix THEN None
            ELSE IF index > line_end_ix
            THEN PositionLoop(Tail(lines), line_height, index,
                              [line_origin EXCEPT !.y = @ + line_size(line, line_height).height],
                              line_end_ix + 1)
            ELSE LET within == line_position_for_index(line, index - line_start_ix, line_height)
                 IN IF is_some(within)
                    THEN Some([x |-> line_origin.x + unwrap(within).x,
                               y |-> line_origin.y + unwrap(within).y])
                    ELSE None

\* what TextLayout::position_for_index does
PositionForIndex(cache, index) ==
    IF ~is_some(cache) THEN Observed("position_for_index", index, "panic", None, <<>>, <<>>)
    ELSE IF ~is_some(unwrap(cache).bounds)
    THEN Observed("position_for_index", index, "panic", None, <<>>, <<>>)
    ELSE LET inner == unwrap(cache)
         IN Observed("position_for_index", index, "ok",
                     Some(PositionLoop(inner.lines, inner.line_height, index,
                                       unwrap(inner.bounds).origin, 0)),
                     <<>>, <<>>)

\* what TextLayout::bounds does, without the unwrap of bounds
BoundsOfUnchecked(cache) ==
    IF ~is_some(cache) THEN Observed("bounds", <<>>, "panic", None, <<>>, <<>>)
    ELSE Observed("bounds", <<>>, "ok", Some(unwrap(cache).bounds), <<>>, <<>>)

\* what TextLayout::bounds does
BoundsOf(cache) ==
    IF ~is_some(cache) THEN Observed("bounds", <<>>, "panic", None, <<>>, <<>>)
    ELSE IF ~is_some(unwrap(cache).bounds) THEN Observed("bounds", <<>>, "panic", None, <<>>, <<>>)
    ELSE Observed("bounds", <<>>, "ok", Some(unwrap(unwrap(cache).bounds)), <<>>, <<>>)

\* what TextLayout::line_height does
LineHeightOf(cache) ==
    IF ~is_some(cache) THEN Observed("line_height", <<>>, "panic", None, <<>>, <<>>)
    ELSE Observed("line_height", <<>>, "ok", Some(unwrap(cache).line_height), <<>>, <<>>)

\* the line texts put end to end, with no separator
RECURSIVE JoinLinesNoSeparator(_)
JoinLinesNoSeparator(lines) ==
    IF lines = <<>> THEN <<>>
    ELSE Head(lines).text \o JoinLinesNoSeparator(Tail(lines))

\* `.join("\n")` over the line texts
RECURSIVE JoinLines(_)
JoinLines(lines) ==
    IF lines = <<>> THEN <<>>
    ELSE IF Len(lines) = 1 THEN Head(lines).text
    ELSE Head(lines).text \o <<NL>> \o JoinLines(Tail(lines))

\* what TextLayout::text does
TextOf(cache) ==
    IF ~is_some(cache) THEN Observed("text", <<>>, "panic", None, <<>>, <<>>)
    ELSE Observed("text", <<>>, "ok", Some(JoinLines(unwrap(cache).lines)), <<>>, <<>>)

QueryIndexForPosition ==
    /\ \E position \in QueryPoints : l_op' = IndexForPosition(l_cache, position)
    /\ l_again' = FALSE
    /\ UNCHANGED <<l_text, l_style, l_runs, l_cache, l_measured, l_prepainted, mvars, rvars, kvars, ivars>>

QueryPositionForIndex ==
    /\ \E index \in QueryIndices : l_op' = PositionForIndex(l_cache, index)
    /\ l_again' = FALSE
    /\ UNCHANGED <<l_text, l_style, l_runs, l_cache, l_measured, l_prepainted, mvars, rvars, kvars, ivars>>

QueryBounds ==
    /\ l_op' = BoundsOf(l_cache)
    /\ l_again' = FALSE
    /\ UNCHANGED <<l_text, l_style, l_runs, l_cache, l_measured, l_prepainted, mvars, rvars, kvars, ivars>>

QueryLineHeight ==
    /\ l_op' = LineHeightOf(l_cache)
    /\ l_again' = FALSE
    /\ UNCHANGED <<l_text, l_style, l_runs, l_cache, l_measured, l_prepainted, mvars, rvars, kvars, ivars>>

QueryText ==
    /\ l_op' = TextOf(l_cache)
    /\ l_again' = FALSE
    /\ UNCHANGED <<l_text, l_style, l_runs, l_cache, l_measured, l_prepainted, mvars, rvars, kvars, ivars>>

\* ---------------------------------------------------------------- the mutex of the cache
\* owners of a clone of the TextLayout handle that may call it at once
MaxOwners == 2

Owners == 1..MaxOwners

\* the measure closure answering from the cache: the guard of the `if let`
\* is dropped on return
MeasureHitProgram == <<"lock", "read", "unlock">>

\* the measure closure shaping, with the guard of the cache test kept until
\* the layout is stored
MeasureMissHoldingLock(truncates) ==
    <<"lock", "read">>
        \o (IF truncates THEN <<"truncate_line">> ELSE <<>>)
        \o <<"shape_text", "write", "unlock">>

\* the measure closure shaping: the guard of the cache test is dropped at the
\* end of the `if let`, and `element_state.lock().replace(..)` takes the
\* mutex again for the one statement
MeasureMissProgram(truncates) ==
    <<"lock", "read", "unlock">>
        \o (IF truncates THEN <<"truncate_line">> ELSE <<>>)
        \o <<"shape_text", "lock", "write", "unlock">>

\* prepaint on a stored layout
PrepaintProgram == <<"lock", "write", "unlock">>

\* prepaint on an empty cache (the panic unwinds and drops the guard), paint
\* and the five queries
ReadProgram == <<"lock", "read", "unlock">>

Idle == <<>>

\* the measure closure storing its size over the lines, line height and wrap
\* width the cache holds
ReplacedSizeOnly(old, o) ==
    IF is_some(old)
    THEN Some([unwrap(old) EXCEPT !.size = o, !.bounds = None])
    ELSE Some([lines |-> o, line_height |-> o, wrap_width |-> o, size |-> o,
               bounds |-> None])

\* Option::replace with the TextLayoutInner the measure closure of owner o
\* builds from its own locals: every field is the caller's, bounds is None
Replaced(old, o) ==
    Some([lines |-> o, line_height |-> o, wrap_width |-> o, size |-> o,
          bounds |-> None])

\* prepaint of owner o on the cache: a stored layout gets its bounds, an empty
\* cache panics and stays empty
Prepainted(old, o) ==
    IF is_some(old) THEN Some([unwrap(old) EXCEPT !.bounds = Some(o)]) ELSE None

LockInit ==
    /\ k_lock = 0
    /\ k_pc = [o \in Owners |-> [steps |-> Idle, at |-> 1]]
    /\ k_stored \in BOOLEAN
    /\ k_fields = IF k_stored THEN Replaced(None, 0) ELSE None
    /\ k_log = [owner |-> 0, step |-> "none", held |-> FALSE]

LockIdle ==
    /\ k_lock = 0
    /\ k_pc = <<>>
    /\ k_stored = FALSE
    /\ k_fields = None
    /\ k_log = [owner |-> 0, step |-> "none", held |-> FALSE]

\* the step an owner is about to take, "none" when it is in no call
NextStep(o) == IF k_pc[o].steps = Idle THEN "none" ELSE k_pc[o].steps[k_pc[o].at]

\* k_pc once owner o has taken its step: the call is over after its last step
Advanced(o) ==
    [k_pc EXCEPT ![o] = IF k_pc[o].at = Len(k_pc[o].steps)
                        THEN [steps |-> Idle, at |-> 1]
                        ELSE [steps |-> k_pc[o].steps, at |-> k_pc[o].at + 1]]

\* an owner enters a call; the measure closure can answer from the cache only
\* when a layout is stored
BeginCall(o) ==
    /\ k_pc[o].steps = Idle
    /\ \E steps \in {MeasureMissProgram(TRUE), MeasureMissProgram(FALSE),
                     PrepaintProgram, ReadProgram}
                       \cup (IF k_stored THEN {MeasureHitProgram} ELSE {}) :
          k_pc' = [k_pc EXCEPT ![o] = [steps |-> steps, at |-> 1]]
    /\ UNCHANGED <<k_lock, k_stored, k_fields, k_log, mvars, rvars, lvars, ivars>>

\* Mutex::lock: waits until the mutex is free (also when the caller holds it)
Acquire(o) ==
    /\ NextStep(o) = "lock"
    /\ k_lock = 0
    /\ k_lock' = o
    /\ k_pc' = Advanced(o)
    /\ k_log' = [owner |-> o, step |-> "lock", held |-> FALSE]
    /\ UNCHANGED <<k_stored, k_fields, mvars, rvars, lvars, ivars>>

\* a read or a write of the Option<TextLayoutInner>: the measure closure
\* replaces the whole value, prepaint sets the bounds of a stored layout
Access(o) ==
    /\ NextStep(o) \in {"read", "write"}
    /\ k_fields' = IF NextStep(o) = "read" THEN k_fields
                   ELSE IF k_pc[o].steps = PrepaintProgram
                        THEN Prepainted(k_fields, o)
                        ELSE Replaced(k_fields, o)
    /\ k_stored' = is_some(k_fields')
    /\ k_pc' = Advanced(o)
    /\ k_log' = [owner |-> o, step |-> NextStep(o), held |-> k_lock = o]
    /\ UNCHANGED <<k_lock, mvars, rvars, lvars, ivars>>

\* the guard is dropped
Release(o) ==
    /\ NextStep(o) = "unlock"
    /\ k_lock' = IF k_lock = o THEN 0 ELSE k_lock
    /\ k_pc' = Advanced(o)
    /\ k_log' = [owner |-> o, step |-> "unlock", held |-> k_lock = o]
    /\ UNCHANGED <<k_stored, k_fields, mvars, rvars, lvars, ivars>>

\* a call into the shaper
CallShaper(o) ==
    /\ NextStep(o) \in {"truncate_line", "shape_text"}
    /\ k_pc' = Advanced(o)
    /\ k_log' = [owner |-> o, step |-> NextStep(o), held |-> k_lock = o]
    /\ UNCHANGED <<k_lock, k_stored, k_fields, mvars, rvars, lvars, ivars>>

\* ---------------------------------------------------------------- InteractiveText
\* byte indices a hit-test of the text can return
MaxIndex == 3

\* Range<usize>
Range(start, end) == [start |-> start, end |-> end]

\* Range::contains
contains(range, ix) == range.start <= ix /\ ix < range.end

\* the ranges handed to on_click: one range, two that abut, two that overlap
RangeLists ==
    {<<Range(0, 2)>>,
     <<Range(0, 2), Range(2, MaxIndex + 1)>>,
     <<Range(0, MaxIndex), Range(1, MaxIndex + 1)>>}

\* Result::ok of a hit-test
ok(hit) == IF hit.tag = "Ok" THEN Some(hit.index) ELSE None

\* what index_for_position answers for the position of a mouse event
HitTests == {Ok(ix) : ix \in 0..MaxIndex} \cup {Err(0)}

\* the closure on_click builds: the range indices (from 0) the listener is
\* called with
ClickListener(ranges, mouse_down_index, mouse_up_index) ==
    {k - 1 : k \in {range_ix \in 1..Len(ranges) :
                        contains(ranges[range_ix], mouse_down_index)
                            /\ contains(ranges[range_ix], mouse_up_index)}}

MouseObserved(event, press, hit, hovered, calls) ==
    [event |-> event, press |-> press, hit |-> hit, hovered |-> hovered, calls |-> calls]

\* an InteractiveText with an on_click and an on_hover listener, after its
\* first frame; the hover listener has not been called
MouseInit ==
    /\ i_ranges \in RangeLists
    /\ i_mouse_down = None
    /\ i_hovered_index = None
    /\ i_hover_said = None
    /\ i_handler = [kind |-> "down", mouse_down_index |-> 0]
    /\ i_dirty = FALSE
    /\ i_press = None
    /\ i_obs = MouseObserved("paint", None, Err(0), FALSE, {})

MouseIdle ==
    /\ i_ranges = <<>>
    /\ i_mouse_down = None
    /\ i_hovered_index = None
    /\ i_hover_said = None
    /\ i_handler = [kind |-> "none", mouse_down_index |-> 0]
    /\ i_dirty = FALSE
    /\ i_press = None
    /\ i_obs = MouseObserved("none", None, Err(0), FALSE, {})

\* InteractiveText::paint: registers the MouseUp handler, with the value of
\* mouse_down_index captured, when a press is recorded, else the MouseDown
\* handler
PaintFrame ==
    /\ i_handler' = IF is_some(i_mouse_down)
                    THEN [kind |-> "up", mouse_down_index |-> unwrap(i_mouse_down)]
                    ELSE [kind |-> "down", mouse_down_index |-> 0]
    /\ i_dirty' = FALSE
    /\ i_obs' = MouseObserved("paint", None, Err(0), FALSE, {})
    /\ UNCHANGED <<i_ranges, i_mouse_down, i_hovered_index, i_hover_said, i_press,
                   mvars, rvars, lvars, kvars>>

\* a MouseDownEvent in the bubble phase; the window paints a refreshed frame
\* before it dispatches the next event, and presses and releases alternate
MouseDown ==
    /\ ~i_dirty
    /\ ~is_some(i_press)
    /\ \E hit \in HitTests, hovered \in BOOLEAN :
          /\ i_press' = Some([hit |-> hit, hovered |-> hovered])
          /\ i_obs' = MouseObserved("down", None, hit, hovered, {})
          /\ IF i_handler.kind = "down" /\ hovered /\ hit.tag = "Ok"
             THEN i_mouse_down' = Some(hit.index) /\ i_dirty' = TRUE
             ELSE UNCHANGED <<i_mouse_down, i_dirty>>
    /\ UNCHANGED <<i_ranges, i_hovered_index, i_hover_said, i_handler,
                   mvars, rvars, lvars, kvars>>

\* a MouseUpEvent in the bubble phase
MouseUp ==
    /\ ~i_dirty
    /\ is_some(i_press)
    /\ \E hit \in HitTests, hovered \in BOOLEAN :
          /\ i_press' = None
          /\ IF i_handler.kind = "up" /\ hovered
             THEN /\ i_obs' = MouseObserved("up", i_press, hit, hovered,
                                 IF hit.tag = "Ok"
                                 THEN ClickListener(i_ranges, i_handler.mouse_down_index,
                                                    hit.index)
                                 ELSE {})
                  /\ i_mouse_down' = None
                  /\ i_dirty' = TRUE
             ELSE /\ i_obs' = MouseObserved("up", i_press, hit, hovered, {})
                  /\ UNCHANGED <<i_mouse_down, i_dirty>>
    /\ UNCHANGED <<i_ranges, i_hovered_index, i_hover_said, i_handler,
                   mvars, rvars, lvars, kvars>>

\* a MouseMoveEvent in the bubble phase: the hover handler looks at the event
\* only while the hitbox is hovered, and calls the listener when the index
\* under the pointer differs from hovered_index
MouseMove ==
    /\ ~i_dirty
    /\ \E hit \in HitTests, hovered \in BOOLEAN :
          LET current == i_hovered_index
              updated == ok(hit)
          IN  /\ i_obs' = MouseObserved("move", None, hit, hovered, {})
              /\ IF hovered /\ current # updated
                 THEN /\ i_hovered_index' = updated
                      /\ i_hover_said' = Some(updated)
                      /\ i_dirty' = TRUE
                 ELSE UNCHANGED <<i_hovered_index, i_hover_said, i_dirty>>
    /\ UNCHANGED <<i_ranges, i_mouse_down, i_handler, i_press, mvars, rvars, lvars, kvars>>

\* ---------------------------------------------------------------- specifications
MergerNext == MergedNextSome \/ MergedNextNone \/ Remerge

RowsNext == RowsNextSome \/ RowsNextNone

\* the merger alone: a merger over any sequence, no grouper
InitMerger == MergerInit /\ RowsIdle /\ LayoutIdle /\ LockIdle /\ MouseIdle

SpecMerger == InitMerger /\ [][MergerNext]_vars

\* the grouper alone: a grouper over a sequence ordered by start row, no merger
InitRows == RowsInit /\ MergerIdle /\ LayoutIdle /\ LockIdle /\ MouseIdle

SpecRows == InitRows /\ [][RowsNext]_vars

\* either adapter over its input: one pass of next() calls to the end
AdaptersNext == MergedNextSome \/ MergedNextNone \/ RowsNextSome \/ RowsNextNone

InitAdapters ==
    \/ MergerInit /\ RowsIdle /\ LayoutIdle /\ LockIdle /\ MouseIdle
    \/ RowsInit /\ MergerIdle /\ LayoutIdle /\ LockIdle /\ MouseIdle

SpecAdapters == InitAdapters /\ [][AdaptersNext]_vars

LayoutNext ==
    \/ Measure
    \/ Prepaint
    \/ Paint
    \/ QueryIndexForPosition
    \/ QueryPositionForIndex
    \/ QueryBounds
    \/ QueryLineHeight
    \/ QueryText

\* one text layout cache, called in any order
InitLayout == LayoutInit /\ MergerIdle /\ RowsIdle /\ LockIdle /\ MouseIdle

SpecLayout == InitLayout /\ [][LayoutNext]_vars

LockNext ==
    \E o \in Owners :
        \/ BeginCall(o)
        \/ Acquire(o)
        \/ Access(o)
        \/ Release(o)
        \/ CallShaper(o)

\* the owners of one cache, their calls interleaved step by step
InitLock == LockInit /\ MergerIdle /\ RowsIdle /\ LayoutIdle /\ MouseIdle

SpecLock == InitLock /\ [][LockNext]_vars

MouseNext == PaintFrame \/ MouseDown \/ MouseUp \/ MouseMove

\* one InteractiveText on screen: frames and mouse events
InitMouse == MouseInit /\ MergerIdle /\ RowsIdle /\ LayoutIdle /\ LockIdle

SpecMouse == InitMouse /\ [][MouseNext]_vars

\* ---------------------------------------------------------------- merger properties
SortedByStart(s) == \A i \in 1..(Len(s) - 1) : s[i].start <= s[i + 1].start

StartBeforeEnd(s) == \A i \in 1..Len(s) : s[i].start <= s[i].end

\* C1: for an input sorted by start whose selections have start <= end, the
\* output is sorted by start and each output ends strictly before the next
\* one starts (adjacent outputs never touch or overlap)
C1_AdjacentOutputsSeparated ==
    (SortedByStart(m_input) /\ StartBeforeEnd(m_input)) =>
        \A i \in 1..(Len(m_out) - 1) :
            /\ m_out[i].start <= m_out[i + 1].start
            /\ m_out[i].end < m_out[i + 1].start

\* two outputs were emitted from a sorted, normalized input, one of them merged
C1_Witness ==
    /\ m_pass = 1
    /\ m_done
    /\ SortedByStart(m_input) /\ StartBeforeEnd(m_input)
    /\ Len(m_input) = 3
    /\ Len(m_out) = 2

\* C2: a pending selection whose start equals the accumulator's end is folded
\* into the accumulator: a call of next() that starts on a selection touched
\* by the following one consumes both, and the selection it returns never
\* ends exactly where the selection left pending starts
C2_TouchingIsMerged ==
    [][MergedNextSome =>
        /\ (Len(m_selections) >= 2 /\ m_selections[1].end = m_selections[2].start)
              => Len(m_selections') <= Len(m_selections) - 2
        /\ m_selections' # <<>> => Head(m_selections').start # Last(m_out').end]_vars

\* two selections that exactly abut came out as one
C2_Witness ==
    /\ m_pass = 1
    /\ m_done
    /\ Len(m_input) = 2
    /\ m_input[1].start < m_input[1].end
    /\ m_input[1].end = m_input[2].start
    /\ m_input[2].start < m_input[2].end
    /\ m_out = <<[start |-> m_input[1].start, end |-> m_input[2].end]>>

\* C3 as stated: merging the merged output of any input gives that output again
C3_IdempotentAnyInput ==
    (m_pass = 2 /\ m_done) => m_out = m_input

\* C3 amended: merging the merged output of an input sorted by start gives
\* that output again
C3_IdempotentSortedInput ==
    (m_pass = 2 /\ m_done /\ SortedByStart(m_orig)) => m_out = m_input

\* the second merge ran over an output of two selections, one of them merged
C3_Witness ==
    /\ m_pass = 2
    /\ m_done
    /\ SortedByStart(m_orig)
    /\ Len(m_orig) = 3
    /\ Len(m_input) = 2
    /\ m_out = m_input

\* positions are doubled so that the gap between p and p + 1 is a point of its own
Covered(s) ==
    {x \in 0..(2 * MaxPos) : \E i \in 1..Len(s) : 2 * s[i].start <= x /\ x <= 2 * s[i].end}

\* the maximal runs of covered positions, as selections
Components(s) ==
    LET covered == Covered(s)
    IN {c \in Selection(0..MaxPos) :
           /\ c.start <= c.end
           /\ \A x \in (2 * c.start)..(2 * c.end) : x \in covered
           /\ (2 * c.start - 1) \notin covered
           /\ (2 * c.end + 1) \notin covered}

\* C4: for an input sorted by start whose selections have start <= end, the
\* complete output is the reference result: the maximal chains of touching or
\* overlapping inputs, each from its minimum start to its maximum end, in
\* ascending order, covering exactly the positions the inputs cover
C4_OutputIsReference ==
    (m_done /\ SortedByStart(m_input) /\ StartBeforeEnd(m_input)) =>
        /\ {m_out[i] : i \in 1..Len(m_out)} = Components(m_input)
        /\ Len(m_out) = Cardinality(Components(m_input))
        /\ SortedByStart(m_out)
        /\ Covered(m_out) = Covered(m_input)

\* an overlapping pair followed by a separate selection, as in [(0,5),(3,8),(10,12)]
C4_Witness ==
    /\ m_pass = 1
    /\ m_done
    /\ Len(m_input) = 3
    /\ StartBeforeEnd(m_input)
    /\ m_input[1].start <= m_input[2].start
    /\ m_input[2].start < m_input[1].end
    /\ m_input[1].end < m_input[2].end
    /\ m_input[2].end < m_input[3].start
    /\ m_out = <<[start |-> m_input[1].start, end |-> m_input[2].end], m_input[3]>>

NoLaterOverlap(s) ==
    \A i \in 1..Len(s) : \A j \in (i + 1)..Len(s) :
        s[i].start <= s[j].start /\ s[i].end < s[j].start

\* C5 as stated: for any input, sorted or not, the output is sorted by start
\* and its selections are pairwise non-overlapping
C5_SeparatedAnyInput == NoLaterOverlap(m_out)

\* C5 amended: for any input sorted by start the output is sorted by start and
\* its selections are pairwise non-overlapping (each ends before every later
\* one starts)
C5_SeparatedSortedInput == SortedByStart(m_input) => NoLaterOverlap(m_out)

\* three outputs from a sorted input
C5_Witness ==
    /\ m_pass = 1
    /\ m_done
    /\ SortedByStart(m_input)
    /\ Len(m_out) = 3

\* ---------------------------------------------------------------- grouper properties
\* the cluster returned by the last next(), with the end_row computed for each
\* of its selections
LastCluster == Last(r_out).selections

EndsAtRowStart(selection) == selection.start # selection.end /\ selection.end.column = 0

\* C6: end_row_for is the row of the next line boundary after the end, plus
\* one, for an empty selection or one that ends past column 0, and is the end
\* row itself for a non-empty selection that ends at column 0; an empty
\* selection at column 0 covers its row
C6_EndRowForCases ==
    r_out # <<>> =>
        \A i \in 1..Len(LastCluster) :
            LET s == LastCluster[i]
                e == r_end_rows[i]
            IN /\ (s.start = s.end \/ s.end.column > 0) => e = display_map[s.end.row] + 1
               /\ (s.start # s.end /\ s.end.column = 0) => e = s.end.row
               /\ (s.start = s.end /\ s.end.column = 0) => e > s.end.row

\* a cluster holds a cursor at column 0 and a selection that ends at column 0
C6_Witness ==
    /\ r_out # <<>>
    /\ \E i \in 1..Len(LastCluster) :
          LastCluster[i].start = LastCluster[i].end /\ LastCluster[i].end.column = 0
    /\ \E i \in 1..Len(LastCluster) : EndsAtRowStart(LastCluster[i])

\* C7: with a row-boundary lookup that never goes back, end_row_for(s) is at
\* least s.end.row: equal for a non-empty s that ends at column 0, strictly
\* greater otherwise
C7_EndRowAtLeastEndRow ==
    r_out # <<>> =>
        \A i \in 1..Len(LastCluster) :
            LET s == LastCluster[i]
                e == r_end_rows[i]
            IN /\ e >= s.end.row
               /\ EndsAtRowStart(s) => e = s.end.row
               /\ ~EndsAtRowStart(s) => e > s.end.row

\* a cluster holds a selection that ends mid-line on a row folded into a later
\* one, and a selection that ends at column 0
C7_Witness ==
    /\ r_out # <<>>
    /\ \E i \in 1..Len(LastCluster) :
          /\ LastCluster[i].end.column > 0
          /\ display_map[LastCluster[i].end.row] > LastCluster[i].end.row
          /\ r_end_rows[i] > LastCluster[i].end.row + 1
    /\ \E i \in 1..Len(LastCluster) :
          EndsAtRowStart(LastCluster[i]) /\ r_end_rows[i] = LastCluster[i].end.row

\* C8: closed adjacency: a selection joins the cluster only when its start row
\* is at most the current end_row, and the selection left pending after a
\* cluster is returned starts strictly after the cluster's end row, so a
\* selection starting exactly on end_row is never left for a new cluster
C8_ClosedAdjacency ==
    r_out # <<>> =>
        /\ \A i \in 2..Len(LastCluster) : LastCluster[i].start.row <= r_end_rows[i - 1]
        /\ r_selections # <<>> => Head(r_selections).start.row > Last(r_out).range.end

\* [(0,0)-(2,0)] followed by the cursor (2,0)-(2,0) came out as one cluster
C8_Witness ==
    /\ r_done
    /\ r_input = << [start |-> [row |-> 0, column |-> 0], end |-> [row |-> 2, column |-> 0]],
                    [start |-> [row |-> 2, column |-> 0], end |-> [row |-> 2, column |-> 0]] >>
    /\ Len(r_out) = 1
    /\ r_end_rows[1] = 2
    /\ r_out[1].selections = r_input

SeqMax(s) == CHOOSE m \in {s[i] : i \in 1..Len(s)} : \A i \in 1..Len(s) : s[i] <= m

\* C9: while a cluster is built end_row never decreases, and the end of the
\* returned range is the maximum of end_row_for over the cluster's selections
C9_EndRowNeverDecreases ==
    r_out # <<>> =>
        /\ \A i \in 1..(Len(r_end_rows) - 1) : r_end_rows[i] <= r_end_rows[i + 1]
        /\ Last(r_out).range.end = SeqMax(r_end_rows)

RECURSIVE Concat(_)
Concat(clusters) ==
    IF clusters = <<>> THEN <<>>
    ELSE Head(clusters).selections \o Concat(Tail(clusters))

\* C10: the grouper partitions its input: every returned cluster is non-empty,
\* and the returned clusters, concatenated in order and followed by what is
\* still pending, are the input sequence; at the end they are the whole input
C10_ClustersPartitionInput ==
    /\ \A k \in 1..Len(r_out) : r_out[k].selections # <<>>
    /\ Concat(r_out) \o r_selections = r_input
    /\ r_done => Concat(r_out) = r_input

\* two selections on separate rows came out as two singleton clusters
C10_Witness ==
    /\ r_done
    /\ Len(r_input) = 2
    /\ Len(r_out) = 2
    /\ r_out[1].selections = <<r_input[1]>>
    /\ r_out[2].selections = <<r_input[2]>>

\* C11: the row ranges come out sorted and separated: each range starts
\* strictly after the end row of the range before it, so the end row of a
\* range (which the range excludes) lies in no emitted range
C11_RangesSeparated ==
    \A k \in 1..(Len(r_out) - 1) :
        /\ r_out[k].range.end < r_out[k + 1].range.start
        /\ \A j \in 1..Len(r_out) :
              ~(r_out[j].range.start <= r_out[k].range.end
                   /\ r_out[k].range.end < r_out[j].range.end)

\* two ranges were emitted
C11_Witness ==
    /\ r_done
    /\ Len(r_out) = 2
    /\ r_out[1].range.start < r_out[1].range.end

\* C37: every range the grouper returns holds a row: start_row < end_row
C37_RangesNonEmpty ==
    \A k \in 1..Len(r_out) : r_out[k].range.start < r_out[k].range.end

\* a cluster of two was returned whose last selection is a cursor at the start
\* of a row: the range ends one row below it
C37_Witness ==
    /\ r_done
    /\ Len(r_out) = 1
    /\ Len(r_out[1].selections) = 2
    /\ is_empty(r_out[1].selections[2])
    /\ r_out[1].selections[2].end.column = 0
    /\ r_out[1].range.end = r_out[1].selections[2].end.row + 1

\* ---------------------------------------------------------------- text layout properties
LayoutStored == is_some(l_cache)

SizeSet == is_some(l_cache) /\ is_some(unwrap(l_cache).size)

BoundsSet == is_some(l_cache) /\ is_some(unwrap(l_cache).bounds)

\* the layout a failed shaping stores: no line
EmptyLayout == is_some(l_cache) /\ unwrap(l_cache).lines = <<>>

NeedBounds == {"paint", "index_for_position", "position_for_index", "bounds"}

\* C12: bounds is set only if size is set; size becomes set only in a
\* measurement and bounds becomes set, or changes, only in a prepaint
C12_BoundsOnlyAfterSize ==
    /\ [](BoundsSet => SizeSet)
    /\ [][/\ (SizeSet' /\ ~SizeSet) => l_op'.name = "measure"
          /\ (BoundsSet' /\ (~BoundsSet \/ unwrap(l_cache').bounds # unwrap(l_cache).bounds))
                => l_op'.name = "prepaint"]_vars

\* prepaint has just recorded bounds on a stored layout
C12_Witness ==
    /\ l_op.name = "prepaint"
    /\ BoundsSet
    /\ SizeSet

\* C13: a prepaint succeeds only after a measurement has stored a layout, and
\* a paint or geometry query succeeds only after a prepaint has recorded
\* bounds; called out of this order they panic and return nothing
C13_PhaseOrder ==
    /\ (l_op.name = "prepaint" /\ l_op.outcome = "ok") => l_measured
    /\ (l_op.name \in NeedBounds /\ l_op.outcome = "ok") => (l_prepainted /\ BoundsSet)
    /\ (l_op.name = "prepaint" /\ ~l_measured) =>
            (l_op.outcome = "panic" /\ l_op.value = None)
    /\ (l_op.name \in NeedBounds /\ ~BoundsSet) =>
            (l_op.outcome = "panic" /\ l_op.value = None /\ l_op.painted = <<>>)

\* a geometry query answered after measurement and prepaint
C13_Witness ==
    /\ l_op.name = "position_for_index"
    /\ l_op.outcome = "ok"
    /\ is_some(unwrap(l_op.value))
    /\ l_measured
    /\ l_prepainted

\* C14: prepaint panics and leaves the cache as it was when no layout is
\* stored; otherwise it sets bounds to its argument and changes no other field
C14_PrepaintEffect ==
    [][l_op'.name = "prepaint" =>
          IF ~is_some(l_cache)
          THEN l_op'.outcome = "panic" /\ l_cache' = l_cache
          ELSE /\ l_op'.outcome = "ok"
               /\ is_some(l_cache')
               /\ unwrap(l_cache').bounds = Some(l_op'.args)
               /\ unwrap(l_cache').lines = unwrap(l_cache).lines
               /\ unwrap(l_cache').line_height = unwrap(l_cache).line_height
               /\ unwrap(l_cache').wrap_width = unwrap(l_cache).wrap_width
               /\ unwrap(l_cache').size = unwrap(l_cache).size]_vars

\* a second prepaint moved the bounds of a shaped layout
C14_Witness ==
    /\ l_op.name = "prepaint"
    /\ l_op.outcome = "ok"
    /\ BoundsSet
    /\ unwrap(l_cache).lines # <<>>
    /\ unwrap(unwrap(l_cache).bounds).origin.x > 0

\* C15: paint panics, and paints no line, when no layout is stored or bounds
\* is unset
C15_PaintNeedsBounds ==
    (l_op.name = "paint" /\ (~LayoutStored \/ ~BoundsSet)) =>
        (l_op.outcome = "panic" /\ l_op.painted = <<>>)

\* paint was called on a stored layout with lines and no bounds
C15_Witness ==
    /\ l_op.name = "paint"
    /\ l_op.outcome = "panic"
    /\ LayoutStored
    /\ Len(unwrap(l_cache).lines) >= 2
    /\ ~BoundsSet

\* C16 as stated: index_for_position called before prepaint returns a miss
C16_MissBeforePrepaint ==
    (l_op.name = "index_for_position" /\ ~BoundsSet) =>
        (l_op.outcome = "ok" /\ is_some(l_op.value) /\ unwrap(l_op.value).tag = "Err")

\* C16 amended: index_for_position called before prepaint panics and returns
\* nothing, neither a hit nor a miss
C16_PanicBeforePrepaint ==
    (l_op.name = "index_for_position" /\ ~BoundsSet) =>
        (l_op.outcome = "panic" /\ l_op.value = None)

\* index_for_position was called on a stored layout before prepaint
C16_Witness ==
    /\ l_op.name = "index_for_position"
    /\ LayoutStored
    /\ ~BoundsSet
    /\ l_op.outcome = "panic"

\* C17: bounds(), line_height() and text() panic and return nothing when no
\* layout is stored, and bounds() also when a layout is stored without bounds
C17_AccessorsNeedPhase ==
    /\ (l_op.name \in {"bounds", "line_height", "text"} /\ ~LayoutStored) =>
            (l_op.outcome = "panic" /\ l_op.value = None)
    /\ (l_op.name = "bounds" /\ LayoutStored /\ ~BoundsSet) =>
            (l_op.outcome = "panic" /\ l_op.value = None)

\* bounds() was called on a stored layout before prepaint
C17_Witness ==
    /\ l_op.name = "bounds"
    /\ l_op.outcome = "panic"
    /\ LayoutStored
    /\ ~BoundsSet

\* C18: a measurement on a cache that holds a size, asked for no wrap width or
\* for the cached one, returns the cached size, calls neither truncate_line nor
\* shape_text and leaves the cache as it was; any other measurement shapes
C18_CacheShortCircuit ==
    [][l_op'.name = "measure" =>
          LET wrap_width == ResolveWrapWidth(l_style, l_op'.args.known, l_op'.args.available)
          IN IF SizeSet /\ (wrap_width = None \/ wrap_width = unwrap(l_cache).wrap_width)
             THEN /\ l_op'.outcome = "ok"
                  /\ l_op'.value = unwrap(l_cache).size
                  /\ l_op'.shaper = <<>>
                  /\ l_cache' = l_cache
                  /\ l_runs' = l_runs
             ELSE /\ l_op'.shaper # <<>>
                  /\ Last(l_op'.shaper) \in {"shape_text", "shape_text failed"}]_vars

\* a measurement asked for the cached wrap width and answered from the cache
C18_Witness ==
    /\ l_op.name = "measure"
    /\ l_op.shaper = <<>>
    /\ SizeSet
    /\ is_some(unwrap(l_cache).wrap_width)
    /\ ResolveWrapWidth(l_style, l_op.args.known, l_op.args.available)
          = unwrap(l_cache).wrap_width
    /\ unwrap(l_cache).lines # <<>>

ShaperFailed ==
    /\ l_op.name = "measure"
    /\ l_op.shaper # <<>>
    /\ Last(l_op.shaper) = "shape_text failed"

\* C19: when shape_text fails the measurement returns normally with the zero
\* size and stores a layout with no line, size zero, the style's line height
\* and the requested wrap width
C19_ShaperFailureAbsorbed ==
    ShaperFailed =>
        /\ l_op.outcome = "ok"
        /\ l_op.value = Some(ZeroSize)
        /\ LayoutStored
        /\ unwrap(l_cache).lines = <<>>
        /\ unwrap(l_cache).size = Some(ZeroSize)
        /\ unwrap(l_cache).line_height = l_style.line_height
        /\ unwrap(l_cache).wrap_width
              = ResolveWrapWidth(l_style, l_op.args.known, l_op.args.available)

\* shaping failed on a measurement that asked for a wrap width
C19_Witness ==
    /\ ShaperFailed
    /\ is_some(unwrap(l_cache).wrap_width)
    /\ Len(l_text) > 0

\* C20: on the empty layout of a failed shaping, once prepaint has recorded
\* bounds, every operation succeeds: index_for_position misses at 0,
\* position_for_index is none, text() is empty, line_height() and bounds()
\* return the stored values and paint() paints no line
C20_EmptyLayoutQueries ==
    (EmptyLayout /\ BoundsSet) =>
        /\ l_op.name \in (NeedBounds \cup {"line_height", "text"}) => l_op.outcome = "ok"
        /\ l_op.name = "index_for_position" => l_op.value = Some(Err(0))
        /\ l_op.name = "position_for_index" => l_op.value = Some(None)
        /\ l_op.name = "text" => l_op.value = Some(<<>>)
        /\ l_op.name = "line_height" => l_op.value = Some(l_style.line_height)
        /\ l_op.name = "bounds" => l_op.value = unwrap(l_cache).bounds
        /\ l_op.name = "paint" => l_op.painted = <<>>

\* a point below the top of the bounds was asked of the empty layout
C20_Witness ==
    /\ EmptyLayout
    /\ BoundsSet
    /\ l_op.name = "index_for_position"
    /\ l_op.args.y > unwrap(unwrap(l_cache).bounds).origin.y
    /\ l_op.value = Some(Err(0))
    /\ Len(l_text) > 0

\* wrap width the last measurement asked for
AskedWrapWidth == ResolveWrapWidth(l_style, l_op.args.known, l_op.args.available)

\* C21: a measurement that repeats the request of the measurement right before
\* it returns the same size and leaves the cache and the run list as the
\* first one left them
C21_MeasureIdempotent ==
    [][(l_op'.name = "measure" /\ l_again') =>
          /\ l_op'.outcome = "ok"
          /\ l_op'.value = l_op.value
          /\ l_cache' = l_cache
          /\ l_runs' = l_runs]_vars

\* the same request with a wrap width was measured twice in a row, the second
\* time from the cache
C21_Witness ==
    /\ l_again
    /\ l_op.name = "measure"
    /\ l_op.shaper = <<>>
    /\ is_some(AskedWrapWidth)
    /\ Len(unwrap(l_cache).lines) >= 2

\* the size a measurement of the same text, style and request returns on a
\* cache that holds nothing
FreshSize(known, available) ==
    LET wrap_width     == ResolveWrapWidth(l_style, known, available)
        truncate_width == ResolveTruncateWidth(l_style, known, available)
        text           == IF is_some(truncate_width)
                          THEN truncate_line(l_text, unwrap(truncate_width),
                                             ResolveEllipsis(l_style), <<Len(l_text)>>).text
                          ELSE l_text
    IN MeasureSize(shape_text(text, wrap_width), l_style.line_height, ZeroSize)

StoredLines == unwrap(l_cache).lines

StoredOrigin == unwrap(unwrap(l_cache).bounds).origin

\* line_start_ix when the loops reach line k: the lengths of the lines before
\* it plus one separator each
RECURSIVE StartIx(_, _)
StartIx(lines, k) ==
    IF k = 1 THEN 0 ELSE StartIx(lines, k - 1) + line_len(lines[k - 1]) + 1

\* line_origin.y - bounds.origin.y when the loops reach line k
RECURSIVE LineTop(_, _, _)
LineTop(lines, line_height, k) ==
    IF k = 1 THEN 0
    ELSE LineTop(lines, line_height, k - 1) + line_size(lines[k - 1], line_height).height

LineBottom(lines, line_height, k) ==
    LineTop(lines, line_height, k) + line_size(lines[k], line_height).height

\* the total text length: the line lengths plus one separator per line boundary
TotalLen(lines) ==
    IF lines = <<>> THEN 0 ELSE StartIx(lines, Len(lines)) + line_len(lines[Len(lines)])

Min(S) == CHOOSE x \in S : \A y \in S : x <= y

\* lines whose vertical band holds a point at or below the top of the bounds
BandsAt(y) ==
    {k \in 1..Len(StoredLines) :
        y <= StoredOrigin.y + LineBottom(StoredLines, unwrap(l_cache).line_height, k)}

\* C23: for a point in the vertical band of some line, index_for_position
\* answers with the first such line's own answer for the point taken relative
\* to that line's origin, the index offset by line_start_ix (the lengths of
\* the earlier lines plus one each), a hit staying a hit and a miss a miss
C23_DelegatesToFirstBand ==
    (l_op.name = "index_for_position" /\ l_op.outcome = "ok"
        /\ l_op.args.y >= StoredOrigin.y /\ BandsAt(l_op.args.y) # {}) =>
        LET k           == Min(BandsAt(l_op.args.y))
            line_height == unwrap(l_cache).line_height
            within      == line_index_for_position(
                               StoredLines[k],
                               [x |-> l_op.args.x - StoredOrigin.x,
                                y |-> l_op.args.y - StoredOrigin.y
                                         - LineTop(StoredLines, line_height, k)],
                               line_height)
        IN l_op.value = Some([tag |-> within.tag,
                              index |-> StartIx(StoredLines, k) + within.index])

\* a hit on the first glyph of the second of two lines, the first of length 1:
\* Ok(1 + 1 + 0)
C23_Witness ==
    /\ l_op.name = "index_for_position"
    /\ l_op.outcome = "ok"
    /\ Len(StoredLines) = 2
    /\ line_len(StoredLines[1]) = 1
    /\ BandsAt(l_op.args.y) # {}
    /\ Min(BandsAt(l_op.args.y)) = 2
    /\ l_op.value = Some(Ok(2))

\* C24: a point above the top of the bounds is a miss at 0, and a point below
\* the last line is a miss at the total text length (line_start_ix - 1,
\* saturating at zero)
C24_OutsideIsMiss ==
    (l_op.name = "index_for_position" /\ l_op.outcome = "ok") =>
        /\ l_op.args.y < StoredOrigin.y => l_op.value = Some(Err(0))
        /\ (l_op.args.y >= StoredOrigin.y /\ BandsAt(l_op.args.y) = {}) =>
              l_op.value = Some(Err(TotalLen(StoredLines)))

\* a point below the second of two lines missed at the end of the text
C24_Witness ==
    /\ l_op.name = "index_for_position"
    /\ l_op.outcome = "ok"
    /\ Len(StoredLines) = 2
    /\ BandsAt(l_op.args.y) = {}
    /\ l_op.value = Some(Err(TotalLen(StoredLines)))
    /\ TotalLen(StoredLines) = MaxText

\* lines whose index range, end included, reaches an index
LinesReaching(index) ==
    {k \in 1..Len(StoredLines) :
        index <= StartIx(StoredLines, k) + line_len(StoredLines[k])}

\* C25: position_for_index is none for an index past the total text length;
\* an index up to it resolves in the first line whose range, end included,
\* holds it: the line's own position for the index less line_start_ix, moved by
\* the line's origin, so that on an unwrapped line it lies at the line's top
C25_IndexResolvesInFirstLine ==
    (l_op.name = "position_for_index" /\ l_op.outcome = "ok") =>
        IF l_op.args > TotalLen(StoredLines) \/ StoredLines = <<>>
        THEN l_op.value = Some(None)
        ELSE LET k           == Min(LinesReaching(l_op.args))
                 line_height == unwrap(l_cache).line_height
                 within      == line_position_for_index(
                                    StoredLines[k], l_op.args - StartIx(StoredLines, k),
                                    line_height)
                 top         == StoredOrigin.y + LineTop(StoredLines, line_height, k)
             IN /\ is_some(within)
                /\ l_op.value = Some(Some([x |-> StoredOrigin.x + unwrap(within).x,
                                           y |-> top + unwrap(within).y]))
                /\ StoredLines[k].wrap_boundaries = 0 =>
                      unwrap(unwrap(l_op.value)).y = top

\* the index at the end of the first of two lines resolved on the first line
C25_Witness ==
    /\ l_op.name = "position_for_index"
    /\ l_op.outcome = "ok"
    /\ Len(StoredLines) = 2
    /\ line_len(StoredLines[1]) >= 1
    /\ l_op.args = line_len(StoredLines[1])
    /\ l_op.value = Some(Some([x |-> StoredOrigin.x + l_op.args * GlyphAdvance,
                               y |-> StoredOrigin.y]))

\* no stored line was wrapped
NoWrapForced == \A k \in 1..Len(StoredLines) : StoredLines[k].wrap_boundaries = 0

\* C26: text() is as long as the line lengths plus one separator per line
\* boundary (the accounting of line_start_ix), and for a text shaped without
\* truncation and with no line wrapped it is the text that was laid out
C26_TextRoundTrip ==
    (l_op.name = "text" /\ l_op.outcome = "ok") =>
        /\ Len(unwrap(l_op.value)) = TotalLen(StoredLines)
        /\ (~EmptyLayout /\ ~is_some(l_style.truncate) /\ NoWrapForced) =>
              l_op.value = Some(l_text)

\* text() gave back a text of three lines
C26_Witness ==
    /\ l_op.name = "text"
    /\ l_op.outcome = "ok"
    /\ Len(StoredLines) = 3
    /\ ~is_some(l_style.truncate)
    /\ NoWrapForced
    /\ l_op.value = Some(l_text)
    /\ Len(l_text) = MaxText

\* the last call was index_for_position, answered, for a point inside the bounds
AskedInsideBounds ==
    /\ l_op.name = "index_for_position"
    /\ l_op.outcome = "ok"
    /\ LET bounds == unwrap(unwrap(l_cache).bounds)
       IN /\ bounds.origin.x <= l_op.args.x
          /\ l_op.args.x < bounds.origin.x + bounds.size.width
          /\ bounds.origin.y <= l_op.args.y
          /\ l_op.args.y < bounds.origin.y + bounds.size.height

\* position_for_index of the index the last index_for_position returned, hit
\* or miss
MappedBack == unwrap(PositionForIndex(l_cache, unwrap(l_op.value).index).value)

Abs(n) == IF n < 0 THEN -n ELSE n

\* C27 as stated: every point inside the bounds maps to an index that maps
\* back to within one line height and one glyph advance of the point
C27_RoundTripWithinOneGlyph ==
    AskedInsideBounds =>
        /\ is_some(MappedBack)
        /\ Abs(unwrap(MappedBack).y - l_op.args.y) <= unwrap(l_cache).line_height
        /\ Abs(unwrap(MappedBack).x - l_op.args.x) <= GlyphAdvance

\* C27 amended: the index returned for a point inside the bounds always maps
\* back to a position; when no line is wrapped that position is on the line in
\* whose band the point lies, at most one line height above the point, and for
\* a hit it is less than one glyph advance to the left of the point; for a
\* miss it is the start or the end of that line, at any horizontal distance
C27_RoundTripOnHits ==
    AskedInsideBounds =>
        /\ is_some(MappedBack)
        /\ NoWrapForced =>
              /\ unwrap(MappedBack).y <= l_op.args.y
              /\ l_op.args.y - unwrap(MappedBack).y <= unwrap(l_cache).line_height
              /\ unwrap(l_op.value).tag = "Ok" =>
                    /\ unwrap(MappedBack).x <= l_op.args.x
                    /\ l_op.args.x - unwrap(MappedBack).x < GlyphAdvance
              /\ unwrap(l_op.value).tag = "Err" =>
                    LET k == Min(BandsAt(l_op.args.y))
                    IN unwrap(l_op.value).index \in
                          {StartIx(StoredLines, k),
                           StartIx(StoredLines, k) + line_len(StoredLines[k])}

\* a point right of the end of a short line, inside bounds as wide as a longer
\* line, missed and mapped back farther than one glyph advance away
C27_Witness ==
    /\ AskedInsideBounds
    /\ NoWrapForced
    /\ unwrap(l_op.value).tag = "Err"
    /\ is_some(MappedBack)
    /\ l_op.args.x - unwrap(MappedBack).x > GlyphAdvance

\* ---------------------------------------------------------------- lock properties
\* C28: the cache is read and written only by an owner holding the mutex, the
\* shaper (truncate_line, shape_text) is called with the mutex not held by the
\* caller, and no owner asks for the mutex while it holds it
C28_LockDiscipline ==
    /\ k_log.step \in {"read", "write"} => k_log.held
    /\ k_log.step \in {"truncate_line", "shape_text"} => ~k_log.held
    /\ \A o \in Owners : NextStep(o) = "lock" => k_lock # o

\* an owner is about to store a shaped layout, after shaping it without the
\* mutex, while another owner holds the mutex
C28_Witness ==
    \E o \in Owners :
        /\ NextStep(o) = "lock"
        /\ k_pc[o].at > 1
        /\ k_log = [owner |-> o, step |-> "shape_text", held |-> FALSE]
        /\ k_lock \in Owners \ {o}

\* ---------------------------------------------------------------- adapter properties
\* what is left of an input is its tail
IsSuffix(rest, input) ==
    /\ Len(rest) <= Len(input)
    /\ rest = SubSeq(input, Len(input) - Len(rest) + 1, Len(input))

\* C29: both adapters go forward only and end: what is left is always a tail
\* of the input, a call of next() that returns an item takes at least one
\* selection off the front of what is left and returns one item, so no more
\* items are returned than selections consumed; a call on an exhausted input
\* returns none and changes nothing else, and the pass ends only then
C29_ForwardOnlyFinite ==
    /\ [](/\ IsSuffix(m_selections, m_input)
          /\ IsSuffix(r_selections, r_input)
          /\ Len(m_out) <= Len(m_input) - Len(m_selections)
          /\ Len(r_out) <= Len(r_input) - Len(r_selections)
          /\ m_done => m_selections = <<>>
          /\ r_done => r_selections = <<>>)
    /\ [][/\ m_out' # m_out =>
                /\ m_selections # <<>>
                /\ Len(m_selections') < Len(m_selections)
                /\ IsSuffix(m_selections', m_selections)
                /\ Len(m_out') = Len(m_out) + 1
          /\ r_out' # r_out =>
                /\ r_selections # <<>>
                /\ Len(r_selections') < Len(r_selections)
                /\ IsSuffix(r_selections', r_selections)
                /\ Len(r_out') = Len(r_out) + 1
                /\ Len(Last(r_out').selections) = Len(r_selections) - Len(r_selections')
          /\ (m_done' /\ ~m_done) => (m_selections = <<>> /\ m_out' = m_out)
          /\ (r_done' /\ ~r_done) => (r_selections = <<>> /\ r_out' = r_out)]_vars

\* a pass of the grouper ended after one call consumed two selections
C29_Witness ==
    /\ r_done
    /\ Len(r_input) = 2
    /\ Len(r_out) = 1
    /\ r_selections = <<>>

\* ---------------------------------------------------------------- InteractiveText properties
\* the press before the last release was on the text, at an index of range k
PressedOn(k) ==
    /\ is_some(i_obs.press)
    /\ unwrap(i_obs.press).hovered
    /\ unwrap(i_obs.press).hit.tag = "Ok"
    /\ contains(i_ranges[k + 1], unwrap(i_obs.press).hit.index)

\* the last release was on the text, at an index of range k
ReleasedOn(k) ==
    /\ i_obs.hovered
    /\ i_obs.hit.tag = "Ok"
    /\ contains(i_ranges[k + 1], i_obs.hit.index)

\* C30: on a mouse release the listener is called with range index k exactly
\* when the latest press before the release and the release itself both hit
\* the text at indices of range k
C30_ClickOnRange ==
    i_obs.event = "up" =>
        \A k \in 0..(Len(i_ranges) - 1) :
            k \in i_obs.calls <=> (PressedOn(k) /\ ReleasedOn(k))

\* ---------------------------------------------------------------- measurement properties
\* the last measurement called the shaper
Reshaped == l_op.name = "measure" /\ l_op.shaper # <<>>

\* the last measurement called the shaper and shape_text succeeded
ShapedOk == Reshaped /\ Last(l_op.shaper) = "shape_text"

\* C32: a measurement that shapes uses, and stores, as wrap width: under
\* white-space normal the known width if there is one, else the available
\* width if it is definite, else none; under nowrap none, whatever the known
\* and the available width
C32_WrapWidthResolution ==
    Reshaped =>
        LET known     == l_op.args.known
            available == l_op.args.available
            expected  == IF l_style.white_space = "Nowrap" THEN None
                         ELSE IF known # None THEN known
                         ELSE IF available.kind = "Definite" THEN Some(available.px)
                         ELSE None
        IN /\ unwrap(l_cache).wrap_width = expected
           /\ \A k \in 1..Len(StoredLines) : StoredLines[k].wrap_width = expected

\* a nowrap text was shaped for a known width and a definite available width
C32_Witness ==
    /\ ShapedOk
    /\ l_style.white_space = "Nowrap"
    /\ is_some(l_op.args.known)
    /\ l_op.args.available.kind = "Definite"
    /\ unwrap(l_cache).wrap_width = None
    /\ Len(l_text) > 0

RECURSIVE SumHeights(_, _, _)
SumHeights(lines, line_height, k) ==
    IF k = 0 THEN 0
    ELSE SumHeights(lines, line_height, k - 1) + line_size(lines[k], line_height).height

\* the width of the widest line
MaxWidth(lines, line_height) ==
    LET widths == {line_size(lines[k], line_height).width : k \in 1..Len(lines)}
    IN CHOOSE w \in widths : \A v \in widths : v <= w

\* a whole number of pixels (two half pixels each)
IsWholePixels(px) == px % 2 = 0

\* C33: a measurement whose shaping succeeds returns and stores a size whose
\* height is the sum of the line heights and whose width is the greatest line
\* width rounded up to a whole pixel, and stores with it the shaped lines, the
\* style's line height and the wrap width of the request
C33_SizeOfShapedLines ==
    ShapedOk =>
        LET line_height == l_style.line_height
            widest      == MaxWidth(StoredLines, line_height)
        IN /\ StoredLines # <<>>
           /\ l_op.value = unwrap(l_cache).size
           /\ unwrap(l_op.value).height = SumHeights(StoredLines, line_height, Len(StoredLines))
           /\ IsWholePixels(unwrap(l_op.value).width)
           /\ unwrap(l_op.value).width >= widest
           /\ unwrap(l_op.value).width < widest + 2
           /\ unwrap(l_cache).line_height = line_height
           /\ unwrap(l_cache).wrap_width = AskedWrapWidth
           /\ \A k \in 1..Len(StoredLines) : StoredLines[k].wrap_width = AskedWrapWidth

\* two lines were shaped, the wider one a pixel and a half wide: the width
\* stored is two pixels
C33_Witness ==
    /\ ShapedOk
    /\ Len(StoredLines) = 2
    /\ ~IsWholePixels(MaxWidth(StoredLines, l_style.line_height))
    /\ unwrap(l_op.value).width = MaxWidth(StoredLines, l_style.line_height) + 1
    /\ unwrap(l_op.value).height = 2 * l_style.line_height

ReadOnlyCalls ==
    {"paint", "index_for_position", "position_for_index", "bounds", "line_height", "text"}

\* C34: paint and the five queries leave the cache as it was, lines,
\* line_height, wrap_width, size and bounds, whether they return or panic
C34_QueriesReadOnly ==
    [][l_op'.name \in ReadOnlyCalls => (l_cache' = l_cache /\ l_runs' = l_runs)]_vars

\* paint painted the lines of a prepainted layout, which is still prepainted
C34_Witness ==
    /\ l_op.name = "paint"
    /\ l_op.outcome = "ok"
    /\ l_op.painted # <<>>
    /\ BoundsSet

\* C35: a measurement that shapes, whether shape_text succeeds or fails, stores
\* a layout with bounds none, and as long as bounds is none paint and the
\* geometry queries panic; a measurement answered from the cache leaves the
\* bounds as recorded
C35_ReshapeResetsBounds ==
    /\ [](/\ Reshaped => (LayoutStored /\ ~BoundsSet)
          /\ (l_op.name \in NeedBounds /\ ~BoundsSet) => l_op.outcome = "panic")
    /\ [][(l_op'.name = "measure" /\ l_op'.shaper = <<>>) =>
              (LayoutStored /\ l_cache' = l_cache)]_vars

\* a prepainted layout was shaped again and has no bounds
C35_Witness ==
    /\ ShapedOk
    /\ l_prepainted
    /\ ~BoundsSet
    /\ Len(l_text) > 0

\* ---------------------------------------------------------------- round trip by index
\* the last call was position_for_index, answered, on two lines or more, for
\* an index up to the total text length
AskedIndexInText ==
    /\ l_op.name = "position_for_index"
    /\ l_op.outcome = "ok"
    /\ Len(StoredLines) >= 2
    /\ l_op.args <= TotalLen(StoredLines)

\* C38: on a prepainted layout of two lines or more, position_for_index is
\* defined for every index up to the total text length, and
\* index_for_position of that position gives the index back, as a hit or as a
\* miss
C38_IndexRoundTrip ==
    AskedIndexInText =>
        /\ is_some(unwrap(l_op.value))
        /\ unwrap(IndexForPosition(l_cache, unwrap(unwrap(l_op.value))).value).index
              = l_op.args

\* ---------------------------------------------------------------- stored layout under interleaving
\* the owners whose calls produced the lines, line height, wrap width and size
\* of a stored layout
Producers(inner) == {inner.lines, inner.line_height, inner.wrap_width, inner.size}

\* owner p has shaped its lines and has not stored them yet
ShapedNotStored(p) ==
    /\ k_pc[p].steps \in {MeasureMissProgram(TRUE), MeasureMissProgram(FALSE)}
    /\ k_pc[p].at > 1
    /\ NextStep(p) = "lock"

\* C36: with measurement calls of several owners of one cache interleaved, the
\* cache is stored exactly when it holds a layout, the lines, line height, wrap
\* width and size of the layout it holds always come from one single call, and
\* after a write the layout is either the writer's own as a whole with no
\* bounds (a measurement) or the one held before with the writer's bounds
\* (a prepaint)
C36_StoredLayoutIsWhole ==
    /\ k_stored = is_some(k_fields)
    /\ is_some(k_fields) => Cardinality(Producers(unwrap(k_fields))) = 1
    /\ (k_log.step = "write" /\ is_some(k_fields)) =>
          \/ /\ Producers(unwrap(k_fields)) = {k_log.owner}
             /\ unwrap(k_fields).bounds = None
          \/ unwrap(k_fields).bounds = Some(k_log.owner)

\* owner 1 has just stored its layout while owner 2, in a measurement of its
\* own, has shaped its lines and waits to store them
C36_Witness ==
    /\ k_log = [owner |-> 1, step |-> "write", held |-> TRUE]
    /\ is_some(k_fields)
    /\ Producers(unwrap(k_fields)) = {1}
    /\ unwrap(k_fields).bounds = None
    /\ ShapedNotStored(2)

\* ---------------------------------------------------------------- hover listener
\* the hover listener was last called with the index of a character
SaidOverCharacter == is_some(i_hover_said) /\ is_some(unwrap(i_hover_said))

\* the last event was a mouse move to a position off the text
MovedOffText == i_obs.event = "move" /\ i_obs.hit.tag = "Err"

\* C31: once the pointer has moved to a position off the text, the last call
\* of the hover listener is not one with the index of a character: if it was
\* told of a hovered character, it has been called with None since
C31_LeaveReportsNone == MovedOffText => ~SaidOverCharacter

====
